---------------------------- MODULE Spec2Model ----------------------------
(***************************************************************************)
(* Model of pre/1/model.py: the Triton python-backend preprocessing model  *)
(* of the EasyOCR text detector (TritonPythonModel.initialize / execute    *)
(* and normalizeMeanVariance).                                             *)
(*                                                                         *)
(* Numbers.  Python floats and numpy float32 values are modelled as exact  *)
(* reduced fractions <<n, d>> with d > 0; integer pixels v are <<v, 1>>.   *)
(* Float rounding is not modelled.                                         *)
(*                                                                         *)
(* Images.  An encoded buffer is either undecodable or the encoding of a   *)
(* uniformly coloured image of some PIL mode and size; a numpy array is    *)
(* [shape, dtype, px] where px is the value of every pixel, one entry per  *)
(* channel.  Resampling a uniform image gives the same uniform colour.     *)
(*                                                                         *)
(* Inputs are read the way the two for loops read them.  nreq is the       *)
(* length of the list handed to execute and requests the prefix the loop   *)
(* of line 56 has reached; a request carries the length n of its batch and *)
(* the elements the loop of line 81 has read.                              *)
(***************************************************************************)
EXTENDS Integers, Sequences, FiniteSets, TLC

\* ------------------------------------------------------------------ bounds
MaxBatch == 2
MaxRequests == 2

\* --------------------------------------------------------------- fractions
RECURSIVE GCD(_, _)
GCD(a, b) == IF b = 0 THEN a ELSE GCD(b, a % b)

Abs(n) == IF n < 0 THEN -n ELSE n

\* Python true division  n / d  of two integers, d > 0
Frac(n, d) == LET g == GCD(Abs(n), d) IN <<n \div g, d \div g>>

\* float -> integer conversion: truncation toward zero
Trunc(f) == IF f[1] >= 0 THEN f[1] \div f[2] ELSE -((-f[1]) \div f[2])

Last(s) == s[Len(s)]

\* ------------------------------------------------------------ __init__
OutputNames == [output |-> "output", image |-> "image", scale |-> "scale"]

Keys == DOMAIN OutputNames

\* ------------------------------------------------------------ errors
NoError == [type |-> "None", msg |-> "", n |-> 0]

Err(type, msg, n) == [type |-> type, msg |-> msg, n |-> n]

\* ------------------------------------------------------------ initialize
CfgFields == {"name", "dims", "data_type"}

\* the data types the sample model configs declare for each output
DataTypes ==
    [output |-> {"TYPE_FP32"}, image |-> {"TYPE_UINT8"}, scale |-> {"TYPE_FP32", "TYPE_INT32"}]

NoCfg == [found |-> FALSE, fields |-> {}, data_type |-> ""]

\* what get_output_config_by_name may hand back for output k
OutputConfigs(k) ==
    {NoCfg} \cup
    { [found |-> TRUE, fields |-> f, data_type |-> IF "data_type" \in f THEN t ELSE ""] :
        f \in SUBSET CfgFields, t \in DataTypes[k] }

ModelConfigs ==
    { c \in [Keys -> UNION {OutputConfigs(k) : k \in Keys}] :
        \A k \in Keys : c[k] \in OutputConfigs(k) }

triton_string_to_numpy(t) ==
    CASE t = "TYPE_FP32" -> "float32"
      [] t = "TYPE_INT32" -> "int32"
      [] t = "TYPE_UINT8" -> "uint8"

\* variant: CheckOutputConfig without the check of line 38
CheckOutputConfigNoDims(cfg) ==
    IF ~cfg.found THEN "not defined"
    ELSE IF "name" \notin cfg.fields THEN "Name"
    ELSE IF "data_type" \notin cfg.fields THEN "Data type"
    ELSE ""

\* lines 35-46, for one output: "" when every check passes
CheckOutputConfig(cfg) ==
    IF ~cfg.found THEN "not defined"
    ELSE IF "dims" \notin cfg.fields THEN "Dims"
    ELSE IF "name" \notin cfg.fields THEN "Name"
    ELSE IF "data_type" \notin cfg.fields THEN "Data type"
    ELSE ""

\* the loop of line 34 visits the outputs in the insertion order of
\* output_names
KeyOrder == <<"output", "image", "scale">>

RECURSIVE FirstConfigError(_, _)
FirstConfigError(cfgs, i) ==
    IF i > Len(KeyOrder) THEN NoError
    ELSE LET k == KeyOrder[i]
             c == CheckOutputConfig(cfgs[k])
         IN IF c # "" THEN Err("ValueError", c, i) ELSE FirstConfigError(cfgs, i + 1)

NoDtypes == [k \in {} |-> ""]

\* ------------------------------------------------------------ images
newsize == <<2240, 1920>>

Corrupt == [ok |-> FALSE, mode |-> "", w |-> 0, h |-> 0, px |-> <<>>]

Buffers ==
    { [ok |-> TRUE, mode |-> "L",    w |-> 2240, h |-> 3840, px |-> <<128>>],
      [ok |-> TRUE, mode |-> "RGB",  w |-> 4480, h |-> 3840, px |-> <<255, 0, 64>>],
      [ok |-> TRUE, mode |-> "RGBA", w |-> 1120, h |-> 960,  px |-> <<10, 20, 30, 255>>],
      [ok |-> TRUE, mode |-> "I",    w |-> 3360, h |-> 1920, px |-> <<70000>>],
      Corrupt }

\* variant: ImageOpen handing back a placeholder image for an undecodable buffer
ImageOpenLenient(buf) ==
    IF buf.ok THEN [err |-> NoError, mode |-> buf.mode, size |-> <<buf.w, buf.h>>, px |-> buf.px]
    ELSE [err |-> NoError, mode |-> "L", size |-> <<1, 1>>, px |-> <<0>>]

\* Image.open(io.BytesIO(img[0])) with the decoding np.array(pil_img) forces
ImageOpen(buf) ==
    IF buf.ok THEN [err |-> NoError, mode |-> buf.mode, size |-> <<buf.w, buf.h>>, px |-> buf.px]
    ELSE [err |-> Err("UnidentifiedImageError", "cannot identify image file", 0),
          mode |-> "", size |-> <<0, 0>>, px |-> <<>>]

Bands(mode) == IF mode = "RGB" THEN 3 ELSE IF mode = "RGBA" THEN 4 ELSE 1

\* np.array(pil_img): rows first, so shape = (height, width[, bands])
NpArray(pil) ==
    [shape |-> IF Bands(pil.mode) = 1 THEN <<pil.size[2], pil.size[1]>>
               ELSE <<pil.size[2], pil.size[1], Bands(pil.mode)>>,
     dtype |-> IF pil.mode = "I" THEN "int32" ELSE "uint8",
     px |-> [c \in 1..Len(pil.px) |-> <<pil.px[c], 1>>]]

\* pil_img.resize(newsize)
Resize(pil, size) == [pil EXCEPT !.size = size]

\* variant: ScalePair with the two ratios in the other order
ScalePairSwapped(w, h) == <<Frac(h, 1920), Frac(w, 2240)>>

\* line 84: [w/2240, h/1920]
ScalePair(w, h) == <<Frac(w, 2240), Frac(h, 1920)>>

\* mean[c] * 255 and variance[c] * 255, in thousandths
mean == <<485, 456, 406>>
variance == <<229, 224, 225>>

\* lines 14-18.  The in-place  img -= <3-vector>  needs the last axis of img
\* to have length 3; anything else is numpy's broadcast ValueError.
normalizeMeanVariance(in_img) ==
    IF Last(in_img.shape) # 3
    THEN [err |-> Err("ValueError", "operands could not be broadcast together", Last(in_img.shape)),
          shape |-> <<>>, dtype |-> "", px |-> <<>>]
    ELSE [err |-> NoError, shape |-> in_img.shape, dtype |-> "float32",
          px |-> [c \in 1..3 |->
                    Frac(1000 * in_img.px[c][1] - mean[c] * 255 * in_img.px[c][2],
                         variance[c] * 255 * in_img.px[c][2])]]

\* variant: Transpose leaving the axes as they are
TransposeNone(a) == a

\* np.transpose(a, (2, 0, 1)) of a 3-D array
Transpose(a) == [a EXCEPT !.shape = <<a.shape[3], a.shape[1], a.shape[2]>>]

\* cv2.cvtColor(a, cv2.COLOR_GRAY2BGR): 8-bit, 16-bit and float32 only
cvtColor(a) ==
    IF a.dtype = "int32"
    THEN [err |-> Err("cv2.error", "Unsupported depth of input image", 0),
          shape |-> <<>>, dtype |-> "", px |-> <<>>]
    ELSE [err |-> NoError, shape |-> <<a.shape[1], a.shape[2], 3>>, dtype |-> a.dtype,
          px |-> <<a.px[1], a.px[1], a.px[1]>>]

Arr(a) == [shape |-> a.shape, dtype |-> a.dtype, px |-> a.px]

\* variant: ListAppend inserting at the front
ListPrepend(l, x) == <<x>> \o l

\* list.append
ListAppend(l, x) == Append(l, x)

\* a python list of floats, seen by np.asarray as a 1-D float64 array
PyList(l) == [shape |-> <<Len(l)>>, dtype |-> "float64", px |-> l]

\* ------------------------------------------------------------ requests
Names == {"output", "image", "scale"}

\* The input tensor of a request has n elements (shape (n, 1)).  bad is the
\* position of its first undecodable element, 0 when every element decodes;
\* batch holds the elements the loop of line 81 has read so far, in order.
Requests ==
    { [has_input |-> FALSE, dtype |-> "", n |-> 0, bad |-> 0, batch |-> <<>>,
       requested |-> r] : r \in SUBSET Names }
    \cup
    { [has_input |-> TRUE, dtype |-> "object", n |-> nb[1], bad |-> nb[2], batch |-> <<>>,
       requested |-> r] :
        nb \in {x \in (0..MaxBatch) \X (0..MaxBatch) : x[2] <= x[1]}, r \in SUBSET Names }
    \cup
    { [has_input |-> TRUE, dtype |-> "float32", n |-> n, bad |-> 0, batch |-> <<>>,
       requested |-> r] : n \in 0..MaxBatch, r \in SUBSET Names }

\* ------------------------------------------------------------ state
VARIABLES
    model_config,   \* the output configs initialize was given, NoConfig before
    output_names,   \* self.output_names
    output_dtypes,  \* self.output_dtypes; NoDtypes until initialize sets it
    init_error,     \* what initialize raised, NoError if nothing
    pc,             \* "new", "init_failed", "ready", "loop", "image", "returned", "raised"
    nreq,           \* len(inference_requests) of the call in progress
    requests,       \* the requests the loop of line 56 has reached, in order
    batch_out,      \* local batch_out
    idx,            \* images of the current batch the loop of line 81 has finished
    opened,         \* Image.open calls made during the call
    responses,      \* local responses
    ret             \* what the call returned or raised

vars == <<model_config, output_names, output_dtypes, init_error, pc, nreq, requests, batch_out,
          idx, opened, responses, ret>>

NoBatchOut == [k \in {} |-> <<>>]

NoRet == [status |-> "none", error |-> NoError, responses |-> <<>>]

NoConfig == [k \in Keys |-> NoCfg]

Init ==
    /\ model_config = NoConfig
    /\ output_names = OutputNames
    /\ output_dtypes = NoDtypes
    /\ init_error = NoError
    /\ pc = "new"
    /\ nreq = 0
    /\ requests = <<>>
    /\ batch_out = NoBatchOut
    /\ idx = 0
    /\ opened = 0
    /\ responses = <<>>
    /\ ret = NoRet

\* ------------------------------------------------------------ initialize
Initialize(cfgs) ==
    /\ pc = "new"
    /\ model_config' = cfgs
    /\ LET e == FirstConfigError(cfgs, 1) IN
        IF e # NoError
        THEN /\ pc' = "init_failed"
             /\ init_error' = e
             /\ UNCHANGED output_dtypes
        ELSE /\ pc' = "ready"
             /\ output_dtypes' = [k \in Keys |-> triton_string_to_numpy(cfgs[k].data_type)]
             /\ UNCHANGED init_error
    /\ UNCHANGED <<output_names, nreq, requests, batch_out, idx, opened, responses, ret>>

\* ------------------------------------------------------------ execute
\* variant: Validate without the check of line 66
ValidateNoOutputCheck(req) ==
    IF ~req.has_input THEN Err("ValueError", "Input tensor input not found", 0)
    ELSE IF req.dtype # "object" THEN Err("ValueError", "Input datatype must be np.object_", 0)
    ELSE NoError

\* lines 61-75
Validate(req) ==
    IF ~req.has_input THEN Err("ValueError", "Input tensor input not found", 0)
    ELSE IF "output" \notin req.requested
         THEN Err("ValueError", "The output with name output is not in the requested outputs", 0)
    ELSE IF req.dtype # "object" THEN Err("ValueError", "Input datatype must be np.object_", 0)
    ELSE NoError

\* variant: BatchOutInit keeping the lists of the previous request
BatchOutKept(req) ==
    [k \in {k \in Keys : output_names[k] \in req.requested} |->
        IF k \in DOMAIN batch_out THEN batch_out[k] ELSE <<>>]

\* lines 77-78
BatchOutInit(req) ==
    [k \in {k \in Keys : output_names[k] \in req.requested} |-> <<>>]

KeyError(k) == Err("KeyError", k, 0)

\* lines 93-94
AppendImageAndOutput(bo, resized_image, image) ==
    IF "image" \notin DOMAIN bo THEN [err |-> KeyError("image"), bo |-> bo]
    ELSE LET bo2 == [bo EXCEPT !["image"] = ListAppend(@, resized_image)] IN
         IF "output" \notin DOMAIN bo2 THEN [err |-> KeyError("output"), bo |-> bo2]
         ELSE [err |-> NoError,
               bo |-> [bo2 EXCEPT !["output"] = ListAppend(@, [image EXCEPT !.dtype = "float32"])]]

\* lines 82-94: one pass of the per-image loop over batch_out value bo
LoopBody(bo, buf) ==
    LET pil == ImageOpen(buf)
        arr == NpArray(pil)
        h == arr.shape[1]
        w == arr.shape[2]
        bo1 == [bo EXCEPT !["scale"] = ListAppend(@, PyList(ScalePair(w, h)))]
        resized_image == NpArray(Resize(pil, newsize))
    IN  IF pil.err # NoError THEN [err |-> pil.err, bo |-> bo]
        ELSE IF "scale" \notin DOMAIN bo THEN [err |-> KeyError("scale"), bo |-> bo]
        ELSE IF Len(resized_image.shape) = 3
        THEN LET nm == normalizeMeanVariance(resized_image) IN
             IF nm.err # NoError THEN [err |-> nm.err, bo |-> bo1]
             ELSE AppendImageAndOutput(bo1, resized_image, Transpose(Arr(nm)))
        ELSE IF Len(arr.shape) = 2
        THEN LET bgr == cvtColor(resized_image) IN
             IF bgr.err # NoError THEN [err |-> bgr.err, bo |-> bo1]
             ELSE LET nm == normalizeMeanVariance(Arr(bgr)) IN
                  IF nm.err # NoError THEN [err |-> nm.err, bo |-> bo1]
                  ELSE AppendImageAndOutput(bo1, Arr(bgr), Transpose(Arr(nm)))
        ELSE [err |-> Err("ValueError", "Do not support input image with channels",
                          Len(arr.shape)),
              bo |-> bo1]

\* element conversion of np.asarray(..., dtype=t)
CastValue(t, f) ==
    CASE t = "int32" -> <<Trunc(f), 1>>
      [] t = "uint8" -> <<Trunc(f) % 256, 1>>
      [] OTHER -> f

\* line 98: Tensor(name, np.asarray(out, dtype=t))
Tensor(name, out, t) ==
    [name |-> name,
     shape |-> IF out = <<>> THEN <<0>> ELSE <<Len(out)>> \o out[1].shape,
     dtype |-> t,
     data |-> [i \in 1..Len(out) |->
                 [c \in 1..Len(out[i].px) |-> CastValue(t, out[i].px[c])]]]

RECURSIVE OutputTensors(_, _)
\* lines 98-99: one tensor per key of bo, in the order of output_names
OutputTensors(bo, i) ==
    IF i > Len(KeyOrder) THEN <<>>
    ELSE LET k == KeyOrder[i] IN
         (IF k \in DOMAIN bo
          THEN <<Tensor(output_names[k], bo[k], output_dtypes[k])>> ELSE <<>>)
         \o OutputTensors(bo, i + 1)

\* variant: Raise handing back the responses built so far
RaisePartial(e, resp) == [status |-> "raise", error |-> e, responses |-> resp]

\* an exception leaving execute: the caller gets no response list
Raise(e, resp) == [status |-> "raise", error |-> e, responses |-> <<>>]

\* line 51-55
ExecuteBegin(n) ==
    /\ pc \in {"ready", "returned", "raised"}
    /\ pc' = "loop"
    /\ nreq' = n
    /\ requests' = <<>>
    /\ responses' = <<>>
    /\ batch_out' = NoBatchOut
    /\ idx' = 0
    /\ opened' = 0
    /\ ret' = NoRet
    /\ UNCHANGED <<model_config, output_names, output_dtypes, init_error>>

\* lines 56-80: the loop takes the next request and validates it
NextRequest(req) ==
    /\ pc = "loop"
    /\ Len(requests) < nreq
    /\ requests' = Append(requests, req)
    /\ LET e == Validate(req) IN
        IF e # NoError
        THEN /\ pc' = "raised"
             /\ ret' = Raise(e, responses)
             /\ UNCHANGED <<batch_out, idx>>
        ELSE /\ pc' = "image"
             /\ batch_out' = BatchOutInit(req)
             /\ idx' = 0
             /\ UNCHANGED ret
    /\ UNCHANGED <<model_config, output_names, output_dtypes, init_error, nreq, opened, responses>>

\* lines 81-94: the loop reads the next element of the batch and processes it
ProcessImage(buf) ==
    /\ pc = "image"
    /\ idx < Last(requests).n
    /\ (buf = Corrupt) <=> (Last(requests).bad = idx + 1)
    /\ requests' = [requests EXCEPT ![Len(requests)].batch = Append(@, buf)]
    /\ LET r == LoopBody(batch_out, buf) IN
        /\ batch_out' = r.bo
        /\ opened' = opened + 1
        /\ IF r.err # NoError
           THEN /\ pc' = "raised"
                /\ ret' = Raise(r.err, responses)
                /\ UNCHANGED idx
           ELSE /\ idx' = idx + 1
                /\ UNCHANGED <<pc, ret>>
    /\ UNCHANGED <<model_config, output_names, output_dtypes, init_error, nreq, responses>>

\* lines 96-104
BuildResponse ==
    /\ pc = "image"
    /\ idx = Last(requests).n
    /\ responses' = Append(responses, OutputTensors(batch_out, 1))
    /\ pc' = "loop"
    /\ UNCHANGED <<model_config, output_names, output_dtypes, init_error, nreq, requests, batch_out,
                   idx, opened, ret>>

\* line 106
Return ==
    /\ pc = "loop"
    /\ Len(requests) = nreq
    /\ pc' = "returned"
    /\ ret' = [status |-> "ok", error |-> NoError, responses |-> responses]
    /\ UNCHANGED <<model_config, output_names, output_dtypes, init_error, nreq, requests, batch_out,
                   idx, opened, responses>>

Next ==
    \/ \E cfgs \in ModelConfigs : Initialize(cfgs)
    \/ \E n \in 0..MaxRequests : ExecuteBegin(n)
    \/ \E req \in Requests : NextRequest(req)
    \/ \E buf \in Buffers : ProcessImage(buf)
    \/ BuildResponse
    \/ Return

Spec == Init /\ [][Next]_vars

\* ------------------------------------------------------------------------
\* Vocabulary of the properties below
\* ------------------------------------------------------------------------
Range(f) == {f[i] : i \in DOMAIN f}

\* the request passes the three checks of lines 61-75
ValidRequest(r) == r.has_input /\ r.dtype = "object" /\ "output" \in r.requested

\* 8-bit 2-D grayscale or 8-bit H x W x 3
Supported(buf) == buf.ok /\ buf.mode \in {"L", "RGB"}

\* value of channel c of the 3-channel form of the image in buf
Pixel(buf, c) == IF buf.mode = "L" THEN buf.px[1] ELSE buf.px[c]

\* what the entry of tensor `name` for the image in buf must hold
DerivedFrom(buf, name, t) ==
    CASE name = "scale" ->
            <<CastValue(t, Frac(buf.w, 2240)), CastValue(t, Frac(buf.h, 1920))>>
      [] name = "image" -> [c \in 1..3 |-> CastValue(t, <<Pixel(buf, c), 1>>)]
      [] name = "output" ->
            [c \in 1..3 |->
                CastValue(t, Frac(1000 * Pixel(buf, c) - mean[c] * 255, variance[c] * 255))]

RECURSIVE RunBatch(_, _, _)
RunBatch(bo, batch, i) ==
    IF i > Len(batch) THEN bo ELSE RunBatch(LoopBody(bo, batch[i]).bo, batch, i + 1)

\* the response of a request processed on its own, from empty output lists
ResponseOf(req) ==
    OutputTensors(
        RunBatch([k \in {k \in Keys : OutputNames[k] \in req.requested} |-> <<>>],
                 req.batch, 1), 1)

\* the request the loop of line 56 is at, or raised on
Cur == Last(requests)

\* the call raised inside the per-image loop of the current request
RaisedInLoop == pc = "raised" /\ requests # <<>> /\ Cur.batch # <<>>

\* ------------------------------------------------------------------------
\* C1: a request processed successfully with N images and all three outputs
\* requested gets 'output', 'image' and 'scale' tensors of exactly N entries
\* each, entry i of each derived from input image i.
C1_AlignedOutputs ==
    \A j \in 1..Len(responses) :
        LET req == requests[j]
            resp == responses[j]
        IN  req.requested = Names =>
              /\ Len(req.batch) = req.n
              /\ Len(resp) = 3
              /\ \A name \in Names :
                    \E t \in Range(resp) :
                        /\ t.name = name
                        /\ t.shape[1] = req.n
                        /\ Len(t.data) = req.n
                        /\ \A i \in 1..req.n :
                              t.data[i] = DerivedFrom(req.batch[i], name, t.dtype)

C1_Witness ==
    \E j \in 1..Len(responses) :
        /\ requests[j].requested = Names
        /\ requests[j].n = 2
        /\ requests[j].batch[1] # requests[j].batch[2]

\* C2: for every requested-output set containing 'output' and every
\* non-empty batch of decodable images execute succeeds, and the response
\* carries exactly the tensors whose names were requested.  Stated for
\* images of a layout the loop handles, so that only the requested set is
\* in question.
C2_ExactlyRequestedOutputs ==
    /\ ~(/\ RaisedInLoop
         /\ ValidRequest(Cur)
         /\ \A i \in 1..Len(Cur.batch) : Supported(Cur.batch[i]))
    /\ \A j \in 1..Len(responses) :
          {t.name : t \in Range(responses[j])} = requests[j].requested

\* C3 as claimed: every decodable 8-bit image, 2-D grayscale or H x W x C
\* with C in {3, 4}, read with all three outputs requested, gets a
\* NormalizedTensor of shape (3, 1920, 2240) and a ResizedImage of shape
\* (1920, 2240, 3).
C3_EveryLayoutNormalized ==
    ~(/\ RaisedInLoop
      /\ DOMAIN batch_out = Keys
      /\ Last(Cur.batch).ok
      /\ Last(Cur.batch).mode \in {"L", "RGB", "RGBA"})

\* the images of request j whose pass through the loop body completed
Completed(j) ==
    IF j = Len(requests) /\ RaisedInLoop
    THEN SubSeq(requests[j].batch, 1, Len(requests[j].batch) - 1)
    ELSE requests[j].batch

\* C3 amended: every NormalizedTensor emitted has shape (3, 1920, 2240) and
\* every ResizedImage emitted has shape (1920, 2240, 3), whatever the size
\* of the input; they are emitted for 8-bit 2-D grayscale and H x W x 3
\* inputs (a grayscale input yields a 3-channel ResizedImage) and for no
\* other layout: a 4-channel input makes the normalisation raise.
C3_ShapesOfEmitted ==
    /\ "output" \in DOMAIN batch_out =>
          \A i \in 1..Len(batch_out["output"]) :
              batch_out["output"][i].shape = <<3, 1920, 2240>>
    /\ "image" \in DOMAIN batch_out =>
          \A i \in 1..Len(batch_out["image"]) :
              batch_out["image"][i].shape = <<1920, 2240, 3>>
    /\ \A j \in 1..Len(responses) : \A t \in Range(responses[j]) :
          requests[j].n > 0 =>
              /\ t.name = "output" => t.shape = <<requests[j].n, 3, 1920, 2240>>
              /\ t.name = "image" => t.shape = <<requests[j].n, 1920, 2240, 3>>
    /\ \A j \in 1..Len(requests) : \A b \in Range(Completed(j)) : Supported(b)
    /\ (RaisedInLoop /\ DOMAIN batch_out = Keys) => ~Supported(Last(Cur.batch))

C3_Witness ==
    /\ pc = "image"
    /\ idx = 2
    /\ Cur.batch[1].mode = "L"
    /\ Cur.batch[2].mode = "RGB"
    /\ batch_out["image"][1].shape = <<1920, 2240, 3>>
    /\ batch_out["output"][2].shape = <<3, 1920, 2240>>

\* C4: a decoded image whose layout is neither 2-D grayscale nor 3-channel
\* colour (a 4-channel RGBA image) fails the request with the ValueError
\* 'Do not support input image with ... channels' naming the channel count.
C4_UnsupportedLayoutError ==
    (/\ RaisedInLoop
     /\ DOMAIN batch_out = Keys
     /\ Last(Cur.batch).ok
     /\ Last(Cur.batch).mode = "RGBA")
    => ret.error = Err("ValueError", "Do not support input image with channels", 4)

\* C5 as claimed: a batch of N >= 2 images with an undecodable buffer at
\* some position fails the request with the decode error.  Stated for
\* requests that pass validation and ask for all three outputs.
C5_AlwaysDecodeError ==
    (/\ pc = "raised"
     /\ requests # <<>>
     /\ ValidRequest(Cur)
     /\ Cur.requested = Names
     /\ Cur.n >= 2
     /\ Cur.bad > 0)
    => ret.error.type = "UnidentifiedImageError"

\* C5 amended: a request whose batch of N >= 2 images has an undecodable
\* buffer at position k never gets a response and returns none of the
\* results computed for images 0..k-1, whatever k; the error it fails with
\* is the decode error exactly when the loop reaches position k, that is
\* when the request passed validation and images 0..k-1 were processed
\* without error, and otherwise the error raised before that.
C5_NoPartialBatch ==
    \A j \in 1..Len(requests) :
        LET r == requests[j] IN
        (r.bad > 0 /\ r.n >= 2) =>
            /\ j = Len(requests)
            /\ Len(responses) < j
            /\ pc \in {"image", "raised"}
            /\ ret.responses = <<>>
            /\ pc = "raised" =>
                  /\ ret.status = "raise"
                  /\ (ret.error.type = "UnidentifiedImageError") <=> (Len(r.batch) = r.bad)
                  /\ (Len(r.batch) = r.bad) => (ValidRequest(r) /\ Last(r.batch) = Corrupt)

C5_Witness ==
    /\ pc = "raised"
    /\ Cur.n = 2
    /\ Cur.bad = 2
    /\ Len(Cur.batch) = 2
    /\ ret.error.type = "UnidentifiedImageError"
    /\ Len(batch_out["output"]) = 1
    /\ ret.responses = <<>>

\* the error the checks of lines 61-75 must raise for request r
PreconditionError(r) ==
    IF ~r.has_input THEN "Input tensor input not found"
    ELSE IF "output" \notin r.requested
         THEN "The output with name output is not in the requested outputs"
    ELSE "Input datatype must be np.object_"

\* the step that takes a request failing a precondition, and what such a
\* request looks like afterwards: parts of C6 below
C6_Step ==
    (pc = "loop" /\ pc' # "returned" /\ ~ValidRequest(Last(requests')))
    => /\ pc' = "raised"
       /\ ret'.status = "raise"
       /\ ret'.error = Err("ValueError", PreconditionError(Last(requests')), 0)
       /\ opened' = opened
       /\ batch_out' = batch_out
       /\ Last(requests').batch = <<>>

C6_Rejected ==
    \A j \in 1..Len(requests) :
        ~ValidRequest(requests[j]) =>
            /\ j = Len(requests)
            /\ pc = "raised"
            /\ requests[j].batch = <<>>
            /\ Len(responses) = j - 1

\* C6: the three request preconditions are checked before the per-image
\* loop: a request without 'input' tensor, without 'output' among the
\* requested outputs, or with a non-object element type raises the
\* corresponding error in the step that takes it, with no image opened and
\* no output list created or filled for it, whatever its batch holds.
C6_ValidationFirst == [][C6_Step]_vars /\ []C6_Rejected

C6_Witness ==
    /\ pc = "raised"
    /\ Len(requests) = 1
    /\ Cur.has_input
    /\ Cur.dtype = "object"
    /\ "output" \notin Cur.requested
    /\ Cur.n = 2
    /\ Cur.bad = 0
    /\ Cur.batch = <<>>
    /\ opened = 0
    /\ batch_out = NoBatchOut

\* C7: initialize fails with a configuration error if and only if one of
\* the three outputs is absent from the model config or lacks 'dims',
\* 'name' or 'data_type'; when it fails output_dtypes is never set, when it
\* succeeds a resolved element type is stored for each of the three outputs.
C7_InitializeChecksConfig ==
    pc # "new" =>
        LET incomplete == \E k \in Keys :
                ~model_config[k].found \/ model_config[k].fields # CfgFields
        IN  /\ (pc = "init_failed") <=> incomplete
            /\ pc = "init_failed" =>
                  /\ init_error.type = "ValueError"
                  /\ output_dtypes = NoDtypes
            /\ pc # "init_failed" =>
                  /\ init_error = NoError
                  /\ DOMAIN output_dtypes = Keys
                  /\ \A k \in Keys :
                        output_dtypes[k] \in {"float32", "int32", "uint8"}
                  /\ output_dtypes["scale"] = "int32"
                        <=> model_config["scale"].data_type = "TYPE_INT32"

C7_Witness ==
    /\ pc = "init_failed"
    /\ model_config["output"].fields = CfgFields
    /\ model_config["image"].fields = {"name", "data_type"}
    /\ model_config["scale"].fields = CfgFields
    /\ output_dtypes = NoDtypes

\* the scale entries the current request has appended, with their images
ScaleEntries ==
    IF requests # <<>> /\ "scale" \in DOMAIN batch_out
          /\ (pc = "image" \/ RaisedInLoop)
    THEN batch_out["scale"] ELSE <<>>

\* C8: the ScalePair appended for a decoded image of width W and height H
\* is (W/2240, H/1920), width ratio first, from the size before resizing;
\* (4480, 3840) gives (2.0, 2.0) and (2240, 3840) gives (1.0, 2.0).
C8_ScalePair ==
    /\ \A i \in 1..Len(ScaleEntries) :
          LET buf == Cur.batch[i]
              s == ScaleEntries[i].px
          IN  /\ buf.ok
              /\ Len(s) = 2
              /\ s[1][1] * 2240 = s[1][2] * buf.w
              /\ s[2][1] * 1920 = s[2][2] * buf.h
              /\ (buf.w = 4480 /\ buf.h = 3840) => s = <<(<<2, 1>>), (<<2, 1>>)>>
              /\ (buf.w = 2240 /\ buf.h = 3840) => s = <<(<<1, 1>>), (<<2, 1>>)>>
    /\ (requests # <<>> /\ "scale" \in DOMAIN batch_out /\ (pc = "image" \/ RaisedInLoop))
          => Len(ScaleEntries) = Cardinality({i \in 1..Len(Cur.batch) : Cur.batch[i].ok})

C8_Witness ==
    /\ Len(ScaleEntries) = 2
    /\ Cur.batch[1].w = 4480
    /\ Cur.batch[2].w = 2240
    /\ ScaleEntries[2].px = <<(<<1, 1>>), (<<2, 1>>)>>

\* C9: a call with R requests that all succeed returns exactly R responses,
\* response j built from request j alone, in request order; a call in which
\* request j fails raises and returns no response list: the responses built
\* for requests 0..j-1 are dropped and no later request is examined.
C9_AllOrNothing ==
    /\ pc = "returned" =>
          /\ ret.status = "ok"
          /\ ret.error = NoError
          /\ Len(requests) = nreq
          /\ Len(ret.responses) = nreq
          /\ \A j \in 1..nreq : ret.responses[j] = ResponseOf(requests[j])
    /\ pc = "raised" =>
          /\ ret.status = "raise"
          /\ ret.error # NoError
          /\ ret.responses = <<>>
          /\ Len(requests) <= nreq
          /\ Len(responses) = Len(requests) - 1
    /\ pc \in {"loop", "image"} => ret = NoRet

C9_Witness ==
    /\ pc = "raised"
    /\ nreq = 2
    /\ Len(requests) = 2
    /\ Len(responses) = 1
    /\ responses[1] # <<>>
    /\ requests[1].n = 1
    /\ ret.responses = <<>>

C9_WitnessReturned ==
    /\ pc = "returned"
    /\ nreq = 2
    /\ requests[1].n = 2
    /\ requests[2].n = 1
    /\ ret.responses[1] # ret.responses[2]

\* the fields of a request that are its input, with the elements read so far
SameInput(r, q) ==
    /\ q.has_input = r.has_input
    /\ q.dtype = r.dtype
    /\ q.n = r.n
    /\ q.bad = r.bad
    /\ q.requested = r.requested
    /\ Len(q.batch) >= Len(r.batch)
    /\ SubSeq(q.batch, 1, Len(r.batch)) = r.batch

\* the parts of C10 below: the frame of a step of execute, its inputs, and
\* the response of each request
C10_FrameStep ==
    pc \in {"ready", "loop", "image", "returned", "raised"}
    => /\ output_names' = output_names
       /\ output_dtypes' = output_dtypes
       /\ model_config' = model_config

C10_InputStep ==
    pc \in {"loop", "image"}
    => \A j \in 1..Len(requests) :
          /\ j <= Len(requests')
          /\ SameInput(requests[j], requests'[j])

C10_SameResponse ==
    /\ \A j \in 1..Len(responses) : responses[j] = ResponseOf(requests[j])
    /\ output_names = OutputNames

\* C10: execute keeps no state across requests or calls: no step of execute
\* changes output_names or the output_dtypes resolved by initialize, none
\* changes a request or an element already read, and the response of a
\* request is the one it gets when processed on its own, whatever was
\* processed before it.
C10_NoStateAcrossRequests ==
    [][C10_FrameStep]_vars /\ [][C10_InputStep]_vars /\ []C10_SameResponse

C10_Witness ==
    /\ pc = "loop"
    /\ Len(responses) = 2
    /\ requests[1].n = 2
    /\ requests[2].n = 1
    /\ requests[2].requested = Names
    /\ responses[2] = ResponseOf(requests[2])
    /\ responses[1] # responses[2]

=============================================================================
